---- MODULE Spec2Model ----
(***************************************************************************)
(* The completion handler of ai00_rwkv_server (src/src/completion.rs).     *)
(*                                                                         *)
(* `completions` is an async handler.  Every call creates two unbounded    *)
(* flume channels, sends one ThreadRequest holding their senders on the    *)
(* shared dispatch channel, awaits one prompt-token count, folds the token *)
(* stream into (text, counter, finish_reason) and returns a response.      *)
(* The handler's steps are the code between two await points.  The worker  *)
(* that owns the other end of the channels is not part of completion.rs;   *)
(* it is modelled as the most general writer the channel interface allows. *)
(***************************************************************************)
EXTENDS Integers, Sequences, FiniteSets, TLC

\* ------------------------------------------------------------------ bounds
MaxTokenSends == 2     \* values the worker sends on token channels, in total
MaxPrompt == 1         \* largest prompt-token count the worker reports
PairTokenSends == 4    \* the same total, for a worker that ends each stream once
FairTokenSends == 1    \* the same total, where the reads are scheduled fairly
MaxPromptItems == 2    \* strings in a prompt array handed to the translation

\* Two concurrent calls: every property below is about one call or about a
\* pair of calls, and calls share nothing but the dispatch channel.
Calls == { 1, 2 }

\* ------------------------------------------------------------- data types
\* crate::Token: Token(String) | EndOfText | CutOff.  Text is a sequence of
\* characters, so that appending a fragment is a real concatenation.
Fragments == { <<"a">>, <<"b", "c">> }
EndOfText == [kind |-> "EndOfText"]
CutOff == [kind |-> "CutOff"]
TokenOf(f) == [kind |-> "Token", frag |-> f]
TokenValues == { TokenOf(f) : f \in Fragments } \cup { EndOfText, CutOff }
IsTerminal(t) == t.kind \in { "EndOfText", "CutOff" }

PromptVals == 0..MaxPrompt

\* crate::OptionArray<T>: nothing, one item or an array of items; Vec::from
\* turns it into the sequence of its items.
NoneArray == [kind |-> "None"]
ItemOf(x) == [kind |-> "Item", item |-> x]
ArrayOf(v) == [kind |-> "Array", items |-> v]
VecFrom(oa) ==
    CASE oa.kind = "None" -> <<>>
      [] oa.kind = "Item" -> << oa.item >>
      [] oa.kind = "Array" -> oa.items

\* crate::MAX_TOKENS, the process-wide ceiling; its value is set outside
\* completion.rs.
MAX_TOKENS == 4

\* Lines 21-33: CompletionRequest::default().  The sampler knobs are f32,
\* kept as literals since nothing computes with them.
CompletionRequestDefault ==
    [prompt |-> NoneArray, max_tokens |-> 256, stop |-> NoneArray,
     temperature |-> "1.0", top_p |-> "1.0",
     presence_penalty |-> "0.0", frequency_penalty |-> "0.0"]

\* CompletionRequest (lines 9-19, #[serde(default)]): the given prompt and
\* max_tokens, the defaults for the rest.
CompletionRequest(p, m) == [CompletionRequestDefault EXCEPT !.prompt = p, !.max_tokens = m]
Requests == { CompletionRequest(ItemOf(<<"a">>), 256),
              CompletionRequest(ArrayOf(<< <<"a">>, <<"b", "c">> >>), 5) }

\* Line 47: .join("") of the prompt's strings.
RECURSIVE JoinSpaced(_)
JoinSpaced(ss) ==
    IF ss = <<>> THEN <<>>
    ELSE IF Len(ss) = 1 THEN Head(ss)
    ELSE Head(ss) \o << " " >> \o JoinSpaced(Tail(ss))

RECURSIVE Join(_)
Join(ss) == IF ss = <<>> THEN <<>> ELSE Head(ss) \o Join(Tail(ss))

\* Line 48: max_tokens.min(crate::MAX_TOKENS), on usize.
ClampTokensUp(m) == IF m > MAX_TOKENS THEN m ELSE MAX_TOKENS

ClampTokens(m) == IF m < MAX_TOKENS THEN m ELSE MAX_TOKENS

\* Lines 35-64: impl From<CompletionRequest> for GenerateRequest.
GenerateRequestFrom(value) ==
    [prompt |-> Join(VecFrom(value.prompt)),
     max_tokens |-> ClampTokens(value.max_tokens),
     stop |-> VecFrom(value.stop),
     sampler |-> [temperature |-> value.temperature,
                  top_p |-> value.top_p,
                  presence_penalty |-> value.presence_penalty,
                  frequency_penalty |-> value.frequency_penalty],
     occurrences |-> <<>>]

\* The requests the translation is tried on.
PromptStrings == { <<>>, <<"a">>, <<"b", "c">> }
PromptArrays == UNION { [1..k -> PromptStrings] : k \in 0..MaxPromptItems }
PromptInputs == { NoneArray } \cup { ItemOf(x) : x \in PromptStrings }
                    \cup { ArrayOf(v) : v \in PromptArrays }
TokenInputs == 0..(MAX_TOKENS + 2) \cup { 256, 2147483647 }
TranslationInputs ==
    { [CompletionRequest(p, m) EXCEPT !.stop = st, !.temperature = t] :
        p \in PromptInputs, m \in TokenInputs,
        st \in { NoneArray, ItemOf(<<"a">>) }, t \in { "1.0", "0.8" } }

\* FinishReason
FinishReasons == { "Null", "Stop", "Length" }

\* TokenCounter
TokenCounter(p, c, t) == [prompt_tokens |-> p, completion_tokens |-> c, total_tokens |-> t]
NoCounter == [none |-> TRUE]
NoResponse == [none |-> TRUE]

\* ThreadRequest (lines 88-92): RequestKind::Completion wrapping the request
\* as the caller gave it, and the call whose two senders it owns.
ThreadRequestTranslated(c, req) ==
    [request |-> [kind |-> "Completion", value |-> GenerateRequestFrom(req)], call |-> c]

ThreadRequest(c, req) == [request |-> [kind |-> "Completion", value |-> req], call |-> c]

VARIABLES
    pc,             \* position of each call's task
    dispatch,       \* the dispatch channel's queue of ThreadRequests
    dispatchOpen,   \* the worker still holds the dispatch channel's receiver
    workerHas,      \* calls whose ThreadRequest the worker has received
    ptChan,         \* per call: queue of the prompt-token-count channel
    ptOpen,         \* per call: the prompt-token channel is connected (both ends alive)
    tokChan,        \* per call: queue of the token channel
    tokOpen,        \* per call: the token channel is connected (both ends alive)
    counter,        \* per call: the local `counter`
    finish_reason,  \* per call: the local `finish_reason`
    text,           \* per call: the local `text`
    response,       \* per call: the returned CompletionResponse
    \* history of the run, read by the properties only
    ptSent,         \* per call: values the worker sent on the prompt-token channel
    sent,           \* per call: values the worker sent on the token channel
    consumed,       \* per call: values the call took from its token stream
    sendAttempts,   \* per call: sends attempted on the dispatch channel
    enqueued,       \* per call: ThreadRequests placed on the dispatch channel
    dispatchFailed, \* per call: the dispatch send returned an error
    \* the request translation, on its own
    creq,           \* the CompletionRequest handed to GenerateRequest::from
    greq            \* the GenerateRequest it returned

vars == << pc, dispatch, dispatchOpen, workerHas, ptChan, ptOpen, tokChan, tokOpen,
           counter, finish_reason, text, response,
           ptSent, sent, consumed, sendAttempts, enqueued, dispatchFailed,
           creq, greq >>

callLocals == << counter, finish_reason, text, response, consumed >>
callVars == << pc, dispatch, dispatchOpen, workerHas, ptChan, ptOpen, tokChan, tokOpen,
               counter, finish_reason, text, response,
               ptSent, sent, consumed, sendAttempts, enqueued, dispatchFailed >>
history == << sendAttempts, enqueued, dispatchFailed >>
translation == << creq, greq >>

\* --------------------------------------------------------------- helpers
RECURSIVE SumLen(_, _)
SumLen(f, S) == IF S = {} THEN 0
                ELSE LET c == CHOOSE x \in S : TRUE
                     IN Len(f[c]) + SumLen(f, S \ {c})

\* No call has been made yet.
NoCalls ==
    /\ pc = [c \in Calls |-> "idle"]
    /\ dispatch = <<>>
    /\ dispatchOpen = TRUE
    /\ workerHas = [c \in Calls |-> FALSE]
    /\ ptChan = [c \in Calls |-> <<>>]
    /\ ptOpen = [c \in Calls |-> FALSE]
    /\ tokChan = [c \in Calls |-> <<>>]
    /\ tokOpen = [c \in Calls |-> FALSE]
    /\ counter = [c \in Calls |-> NoCounter]
    /\ finish_reason = [c \in Calls |-> "Null"]
    /\ text = [c \in Calls |-> <<>>]
    /\ response = [c \in Calls |-> NoResponse]
    /\ ptSent = [c \in Calls |-> <<>>]
    /\ sent = [c \in Calls |-> <<>>]
    /\ consumed = [c \in Calls |-> <<>>]
    /\ sendAttempts = [c \in Calls |-> 0]
    /\ enqueued = [c \in Calls |-> 0]
    /\ dispatchFailed = [c \in Calls |-> FALSE]

NoRequest == [none |-> TRUE]

Init ==
    /\ NoCalls
    /\ creq = NoRequest
    /\ greq = NoRequest

\* ------------------------------------------------------ the handler's steps

\* Line 88, flume::Sender::send on the dispatch channel: one attempt; the
\* message is queued if the receiver is alive and handed back in the error
\* otherwise.
DispatchSendTwice(q, open, msg) ==
    [ok |-> open, attempts |-> 2,
     queue |-> IF open THEN Append(Append(q, msg), msg) ELSE q]

DispatchSend(q, open, msg) ==
    [ok |-> open, attempts |-> 1,
     queue |-> IF open THEN Append(q, msg) ELSE q]

\* The dispatch channel is unbounded: a send never waits for room.
DispatchHasRoom(q) == TRUE

\* Lines 88-92, `let _ = sender.send(..)`: the result is discarded.  A failed
\* send's error owns the ThreadRequest, so both senders die with it; after a
\* successful send they live on in the queue.
SendersLeak(ok) == TRUE

SendersKept(ok) == ok

\* Lines 85-92: create the two reply channels and send the ThreadRequest.
CallSend(c, req) ==
    /\ pc[c] = "idle"
    /\ DispatchHasRoom(dispatch)
    /\ LET r == DispatchSend(dispatch, dispatchOpen, ThreadRequest(c, req)) IN
       /\ dispatch' = r.queue
       /\ sendAttempts' = [sendAttempts EXCEPT ![c] = @ + r.attempts]
       /\ enqueued' = [enqueued EXCEPT ![c] = @ + (Len(r.queue) - Len(dispatch))]
       /\ dispatchFailed' = [dispatchFailed EXCEPT ![c] = ~r.ok]
       /\ ptOpen' = [ptOpen EXCEPT ![c] = SendersKept(r.ok)]
       /\ tokOpen' = [tokOpen EXCEPT ![c] = SendersKept(r.ok)]
    /\ pc' = [pc EXCEPT ![c] = "recv_prompt"]
    /\ UNCHANGED << dispatchOpen, workerHas, ptChan, tokChan, callLocals, ptSent, sent,
                    translation >>

\* flume, both recv_async (line 95) and the stream's next (line 108): the read
\* resolves once a value is queued, or once the queue is empty and the channel
\* is disconnected.
RecvResolvesOnValueOnly(chan, open) == chan # <<>>

RecvResolvesAtOnce(chan, open) == TRUE

RecvResolves(chan, open) == chan # <<>> \/ ~open

\* Lines 94-97: .unwrap_or_default() of the received Result<usize, _>.
UnwrapOrOne(chan) == IF chan # <<>> THEN Head(chan) ELSE 1

UnwrapOrDefault(chan) == IF chan # <<>> THEN Head(chan) ELSE 0

\* Lines 98-102.
NewCounterZeroTotal(prompt_tokens) == TokenCounter(prompt_tokens, 0, 0)

NewCounter(prompt_tokens) == TokenCounter(prompt_tokens, 0, prompt_tokens)

\* Lines 85-86: each call reads the receivers it created itself.
SharedReceiver(c) == 1

PromptReceiver(c) == c

TokenReceiver(c) == c

\* Lines 94-106: recv_async().await.unwrap_or_default(), then the locals.
\* The token receiver of line 86 is left alone until line 106.
CallRecvPromptDiscardsStream(c) ==
    LET r == PromptReceiver(c) IN
    /\ pc[c] = "recv_prompt"
    /\ RecvResolves(ptChan[r], ptOpen[r])
    /\ counter' = [counter EXCEPT ![c] = NewCounter(UnwrapOrDefault(ptChan[r]))]
    /\ ptChan' = [ptChan EXCEPT ![r] = IF @ # <<>> THEN Tail(@) ELSE @]
    /\ tokChan' = [tokChan EXCEPT ![c] = <<>>]
    /\ finish_reason' = [finish_reason EXCEPT ![c] = "Null"]
    /\ text' = [text EXCEPT ![c] = <<>>]
    /\ pc' = [pc EXCEPT ![c] = "stream"]
    /\ UNCHANGED << dispatch, dispatchOpen, workerHas, ptOpen, tokOpen,
                    response, consumed, ptSent, sent, history, translation >>

CallRecvPrompt(c) ==
    LET r == PromptReceiver(c) IN
    /\ pc[c] = "recv_prompt"
    /\ RecvResolves(ptChan[r], ptOpen[r])
    /\ counter' = [counter EXCEPT ![c] = NewCounter(UnwrapOrDefault(ptChan[r]))]
    /\ ptChan' = [ptChan EXCEPT ![r] = IF @ # <<>> THEN Tail(@) ELSE @]
    /\ finish_reason' = [finish_reason EXCEPT ![c] = "Null"]
    /\ text' = [text EXCEPT ![c] = <<>>]
    /\ pc' = [pc EXCEPT ![c] = "stream"]
    /\ UNCHANGED << dispatch, dispatchOpen, workerHas, ptOpen, tokChan, tokOpen,
                    response, consumed, ptSent, sent, history, translation >>

\* Line 111: text += &token.
PushTextFront(t, frag) == frag \o t

PushText(t, frag) == t \o frag

\* Lines 112-113.  The fields are usize; the counts of this model stay far
\* below 2^64, where += 1 cannot overflow.
CountTokenDropsPrompt(cnt) ==
    [cnt EXCEPT !.prompt_tokens = 0, !.completion_tokens = @ + 1, !.total_tokens = @ + 1]

CountTokenNoTotal(cnt) == [cnt EXCEPT !.completion_tokens = @ + 1]

CountTokenTwice(cnt) == [cnt EXCEPT !.completion_tokens = @ + 2, !.total_tokens = @ + 2]

CountToken(cnt) == [cnt EXCEPT !.completion_tokens = @ + 1, !.total_tokens = @ + 1]

\* Lines 115-122: the finish reason a terminal variant sets.
FinishReasonSwapped(token) == IF token.kind = "EndOfText" THEN "Length" ELSE "Stop"

FinishReasonOf(token) == IF token.kind = "EndOfText" THEN "Stop" ELSE "Length"

\* Lines 115-122: a terminal variant touches finish_reason only.
CounterCountsCutOff(cnt, token) ==
    IF token.kind = "CutOff"
    THEN [cnt EXCEPT !.completion_tokens = @ + 1, !.total_tokens = @ + 1]
    ELSE cnt

CounterAtTerminal(cnt, token) == cnt

\* Lines 117, 121: both terminal arms end with break.
LoopBreaksOnCutOff(token) == token.kind = "CutOff"

LoopBreaks(token) == IsTerminal(token)

\* Lines 126-134: the response built from the locals.
CompletionResponseTwoChoices(t, fr, cnt) ==
    [object |-> "text_completion",
     choices |-> << [text |-> t, index |-> 0, finish_reason |-> fr],
                    [text |-> <<>>, index |-> 1, finish_reason |-> "Null"] >>,
     counter |-> cnt]

CompletionResponse(t, fr, cnt) ==
    [object |-> "text_completion",
     choices |-> << [text |-> t, index |-> 0, finish_reason |-> fr] >>,
     counter |-> cnt]

\* Return (line 135): the response goes to the caller and the frame is
\* dropped, and both receivers with it.  A flume channel whose receiver is
\* gone is disconnected: what it still holds is unreadable and every later
\* send on it fails.
DropReceivers(c) ==
    /\ ptChan' = [ptChan EXCEPT ![c] = <<>>]
    /\ tokChan' = [tokChan EXCEPT ![c] = <<>>]
    /\ ptOpen' = [ptOpen EXCEPT ![c] = FALSE]
    /\ tokOpen' = [tokOpen EXCEPT ![c] = FALSE]

Return(c, t, fr, cnt) ==
    /\ response' = [response EXCEPT ![c] = CompletionResponse(t, fr, cnt)]
    /\ pc' = [pc EXCEPT ![c] = "done"]
    /\ DropReceivers(c)

\* Lines 108-135: one stream.next().await and the loop body it leads to.  A
\* break leads to the return with no await in between, and so does the end of
\* the stream.
CallNext(c) ==
    LET r == TokenReceiver(c) IN
    /\ pc[c] = "stream"
    /\ RecvResolves(tokChan[r], tokOpen[r])
    /\ IF tokChan[r] # <<>>
       THEN LET token == Head(tokChan[r]) IN
            /\ consumed' = [consumed EXCEPT ![c] = Append(@, token)]
            /\ IF token.kind = "Token"
               THEN /\ text' = [text EXCEPT ![c] = PushText(@, token.frag)]
                    /\ counter' = [counter EXCEPT ![c] = CountToken(@)]
                    /\ tokChan' = [tokChan EXCEPT ![r] = Tail(@)]
                    /\ UNCHANGED << finish_reason, response, pc, ptChan, ptOpen, tokOpen >>
               ELSE /\ finish_reason' = [finish_reason EXCEPT ![c] = FinishReasonOf(token)]
                    /\ counter' = [counter EXCEPT ![c] = CounterAtTerminal(@, token)]
                    /\ UNCHANGED text
                    /\ IF LoopBreaks(token)
                       THEN Return(c, text[c], FinishReasonOf(token),
                                   CounterAtTerminal(counter[c], token))
                       ELSE /\ tokChan' = [tokChan EXCEPT ![r] = Tail(@)]
                            /\ UNCHANGED << response, pc, ptChan, ptOpen, tokOpen >>
       ELSE /\ Return(c, text[c], finish_reason[c], counter[c])
            /\ UNCHANGED << consumed, text, counter, finish_reason >>
    /\ UNCHANGED << dispatch, dispatchOpen, workerHas, ptSent, sent, history, translation >>

\* The caller goes away while the task is suspended at one of its two await
\* points (lines 96, 108): the future is dropped, and its receivers with it.
\* Nothing is sent to the worker.
AbandonWithAbort(c) ==
    /\ pc[c] \in { "recv_prompt", "stream" }
    /\ pc' = [pc EXCEPT ![c] = "abandoned"]
    /\ DropReceivers(c)
    /\ dispatch' = Append(dispatch, [request |-> [kind |-> "Abort"], call |-> c])
    /\ UNCHANGED << dispatchOpen, workerHas, callLocals, ptSent, sent, history, translation >>

Abandon(c) ==
    /\ pc[c] \in { "recv_prompt", "stream" }
    /\ pc' = [pc EXCEPT ![c] = "abandoned"]
    /\ DropReceivers(c)
    /\ UNCHANGED << dispatch, dispatchOpen, workerHas, callLocals, ptSent, sent, history, translation >>

\* ------------------------------------------------------------- the worker
\* The single reader of the dispatch channel and single writer of the reply
\* channels.  It may send any value in any order and drop any sender at any
\* time.

WorkerRecv ==
    /\ dispatchOpen
    /\ dispatch # <<>>
    /\ workerHas' = [workerHas EXCEPT ![Head(dispatch).call] = TRUE]
    /\ dispatch' = Tail(dispatch)
    /\ UNCHANGED << pc, dispatchOpen, ptChan, ptOpen, tokChan, tokOpen,
                    callLocals, ptSent, sent, history, translation >>

\* The call's receivers are gone: it has returned or was abandoned.
ReaderGone(c) == pc[c] \in { "done", "abandoned" }

\* The prompt-token channel is one-shot: the worker reports the count once.
\* A send on an unbounded channel never waits: it enqueues, or, the reader
\* being gone, fails at once and changes nothing.
WorkerSendPrompt(c, n) ==
    /\ workerHas[c]
    /\ ptSent[c] = <<>>
    /\ IF ReaderGone(c)
       THEN UNCHANGED << ptChan, ptSent >>
       ELSE /\ ptOpen[c]
            /\ ptChan' = [ptChan EXCEPT ![c] = Append(@, n)]
            /\ ptSent' = [ptSent EXCEPT ![c] = Append(@, n)]
    /\ UNCHANGED << pc, dispatch, dispatchOpen, workerHas, ptOpen, tokChan, tokOpen,
                    callLocals, sent, history, translation >>

WorkerSendUpTo(c, t, budget) ==
    /\ workerHas[c]
    /\ IF ReaderGone(c)
       THEN UNCHANGED << tokChan, sent >>
       ELSE /\ tokOpen[c]
            /\ SumLen(sent, Calls) < budget
            /\ tokChan' = [tokChan EXCEPT ![c] = Append(@, t)]
            /\ sent' = [sent EXCEPT ![c] = Append(@, t)]
    /\ UNCHANGED << pc, dispatch, dispatchOpen, workerHas, ptChan, ptOpen, tokOpen,
                    callLocals, ptSent, history, translation >>

WorkerSendToken(c, t) == WorkerSendUpTo(c, t, MaxTokenSends)

\* A worker that keeps to the stream's format: nothing follows a terminal
\* variant.
WorkerStream(c, t) ==
    /\ \A i \in 1..Len(sent[c]) : ~IsTerminal(sent[c][i])
    /\ WorkerSendUpTo(c, t, PairTokenSends)

WorkerSendFew(c, t) == WorkerSendUpTo(c, t, FairTokenSends)

\* The two orders in which a worker may serve a call: the count and then the
\* stream, or the count somewhere after the first stream value.
WorkerCountFirst(c, n) == sent[c] = <<>> /\ WorkerSendPrompt(c, n)
WorkerStreamAfterCount(c, t) == ptSent[c] # <<>> /\ WorkerStream(c, t)
WorkerCountLate(c, n) == sent[c] # <<>> /\ WorkerSendPrompt(c, n)

WorkerDropPrompt(c) ==
    /\ workerHas[c] /\ ptOpen[c]
    /\ ptOpen' = [ptOpen EXCEPT ![c] = FALSE]
    /\ UNCHANGED << pc, dispatch, dispatchOpen, workerHas, ptChan, tokChan, tokOpen,
                    callLocals, ptSent, sent, history, translation >>

WorkerDropToken(c) ==
    /\ workerHas[c] /\ tokOpen[c]
    /\ tokOpen' = [tokOpen EXCEPT ![c] = FALSE]
    /\ UNCHANGED << pc, dispatch, dispatchOpen, workerHas, ptChan, ptOpen, tokChan,
                    callLocals, ptSent, sent, history, translation >>

\* The worker stops listening: the dispatch channel's receiver is dropped.
\* flume keeps what is queued (and the senders inside it) for as long as the
\* handler's Sender keeps the channel alive.
WorkerStop ==
    /\ dispatchOpen
    /\ dispatchOpen' = FALSE
    /\ UNCHANGED << pc, dispatch, workerHas, ptChan, ptOpen, tokChan, tokOpen,
                    callLocals, ptSent, sent, history, translation >>

Next ==
    \/ \E c \in Calls, req \in Requests : CallSend(c, req)
    \/ \E c \in Calls : CallRecvPrompt(c)
    \/ \E c \in Calls : CallNext(c)
    \/ \E c \in Calls : Abandon(c)
    \/ WorkerRecv
    \/ \E c \in Calls, n \in PromptVals : WorkerSendPrompt(c, n)
    \/ \E c \in Calls, t \in TokenValues : WorkerSendToken(c, t)
    \/ \E c \in Calls : WorkerDropPrompt(c)
    \/ \E c \in Calls : WorkerDropToken(c)
    \/ WorkerStop

Spec == Init /\ [][Next]_vars

\* Two runs side by side, served by a worker that reports a count (or not) and
\* ends each stream with one terminal variant.
PairNext ==
    \/ \E c \in Calls, req \in Requests : CallSend(c, req)
    \/ \E c \in Calls : CallRecvPrompt(c)
    \/ \E c \in Calls : CallNext(c)
    \/ WorkerRecv
    \/ \E c \in Calls, n \in PromptVals : WorkerSendPrompt(c, n)
    \/ \E c \in Calls, t \in TokenValues : WorkerStream(c, t)
    \/ \E c \in Calls : WorkerDropPrompt(c)

PairSpec == Init /\ [][PairNext]_vars

\* The runtime polls a task whose awaited read can resolve: the two reads are
\* weakly fair.  Nothing obliges the worker, or the caller, to act.
FairNext ==
    \/ \E c \in Calls, req \in Requests : CallSend(c, req)
    \/ \E c \in Calls : CallRecvPrompt(c)
    \/ \E c \in Calls : CallNext(c)
    \/ \E c \in Calls : Abandon(c)
    \/ WorkerRecv
    \/ \E c \in Calls, n \in PromptVals : WorkerSendPrompt(c, n)
    \/ \E c \in Calls, t \in TokenValues : WorkerSendFew(c, t)
    \/ \E c \in Calls : WorkerDropPrompt(c)
    \/ \E c \in Calls : WorkerDropToken(c)
    \/ WorkerStop

FairSpec ==
    /\ Init /\ [][FairNext]_vars
    /\ \A c \in Calls : WF_vars(CallRecvPrompt(c)) /\ WF_vars(CallNext(c))

\* Two runs side by side: call 1 is served count first, call 2 count late.
OrderNext ==
    \/ \E c \in Calls, req \in Requests : CallSend(c, req)
    \/ \E c \in Calls : CallRecvPrompt(c)
    \/ \E c \in Calls : CallNext(c)
    \/ WorkerRecv
    \/ \E n \in PromptVals : WorkerCountFirst(1, n)
    \/ \E t \in TokenValues : WorkerStreamAfterCount(1, t)
    \/ \E t \in TokenValues : WorkerStream(2, t)
    \/ \E n \in PromptVals : WorkerCountLate(2, n)

OrderSpec == Init /\ [][OrderNext]_vars

\* Callers that may go away, served by a worker that keeps listening and
\* keeps every sender it was given.
AbandonNext ==
    \/ \E c \in Calls, req \in Requests : CallSend(c, req)
    \/ \E c \in Calls : CallRecvPrompt(c)
    \/ \E c \in Calls : CallNext(c)
    \/ \E c \in Calls : Abandon(c)
    \/ WorkerRecv
    \/ \E c \in Calls, n \in PromptVals : WorkerSendPrompt(c, n)
    \/ \E c \in Calls, t \in TokenValues : WorkerSendToken(c, t)

AbandonSpec == Init /\ [][AbandonNext]_vars

\* The translation on its own: any request, translated once.
TranslationInit ==
    /\ NoCalls
    /\ creq \in TranslationInputs
    /\ greq = NoRequest

Translate ==
    /\ greq = NoRequest
    /\ greq' = GenerateRequestFrom(creq)
    /\ UNCHANGED << creq, callVars >>

TranslationNext == Translate

TranslationSpec == TranslationInit /\ [][TranslationNext]_vars

\* ------------------------------------------------------------- properties
Active(c) == pc[c] \in { "recv_prompt", "stream" }
Done(c) == pc[c] = "done"
Choice(c) == response[c].choices[1]

RECURSIVE Flatten(_)
Flatten(ss) == IF ss = <<>> THEN <<>> ELSE Head(ss) \o Flatten(Tail(ss))

IsToken(t) == t.kind = "Token"
TokensIn(s) == SelectSeq(s, IsToken)
TextOf(s) == Flatten([i \in 1..Len(TokensIn(s)) |-> TokensIn(s)[i].frag])

\* Index of the first terminal variant of s, Len(s) + 1 if it has none.
FirstTerminalAt(s) ==
    IF \E i \in 1..Len(s) : IsTerminal(s[i])
    THEN CHOOSE i \in 1..Len(s) : IsTerminal(s[i]) /\ \A j \in 1..(i - 1) : ~IsTerminal(s[j])
    ELSE Len(s) + 1
BeforeFirstTerminal(s) == SubSeq(s, 1, FirstTerminalAt(s) - 1)
FirstTerminalKind(s) == IF FirstTerminalAt(s) <= Len(s) THEN s[FirstTerminalAt(s)].kind ELSE "none"
IsPrefix(s, t) == Len(s) <= Len(t) /\ SubSeq(t, 1, Len(s)) = s

\* C1: whenever a call's counter exists (from its initialisation on, after
\* every consumed stream value and in the returned response), total_tokens is
\* prompt_tokens + completion_tokens.
C1_TotalIsSum ==
    \A c \in Calls :
        /\ counter[c] # NoCounter =>
              counter[c].total_tokens = counter[c].prompt_tokens + counter[c].completion_tokens
        /\ Done(c) =>
              response[c].counter.total_tokens =
                  response[c].counter.prompt_tokens + response[c].counter.completion_tokens

C1_Witness ==
    \E c \in Calls :
        /\ Done(c)
        /\ response[c].counter.prompt_tokens > 0
        /\ response[c].counter.completion_tokens > 0

\* C2: the text of a returned response is the concatenation, in sending
\* order, of exactly the Token fragments the worker sent on the call's token
\* channel before the first terminal variant (all of them if none was sent).
C2_TextIsSentFragments ==
    \A c \in Calls :
        Done(c) => Choice(c).text = TextOf(BeforeFirstTerminal(sent[c]))

C2_Witness ==
    \E c \in Calls :
        /\ Done(c)
        /\ Len(TokensIn(BeforeFirstTerminal(sent[c]))) >= 2
        /\ sent[c][1] # sent[c][2]
        /\ Choice(c).text = <<"b", "c", "a">>

\* C3: a returned response has finish_reason Stop exactly when the first
\* terminal value the call consumed was EndOfText, Length exactly when it was
\* CutOff, and Null exactly when the stream closed with no terminal consumed.
C3_FinishReason ==
    \A c \in Calls :
        Done(c) =>
            LET k == FirstTerminalKind(consumed[c]) IN
            /\ Choice(c).finish_reason = "Stop" <=> k = "EndOfText"
            /\ Choice(c).finish_reason = "Length" <=> k = "CutOff"
            /\ Choice(c).finish_reason = "Null" <=> k = "none"
            /\ k = FirstTerminalKind(sent[c])
            /\ k = "none" => consumed[c] = sent[c]

C3_Witness ==
    /\ Done(1) /\ Choice(1).finish_reason = "Length" /\ consumed[1] = << CutOff >>
    /\ Done(2) /\ Choice(2).finish_reason = "Null" /\ consumed[2] = << TokenOf(<<"a">>) >>

\* C4: completion_tokens counts the Token fragments the call consumed: one
\* per Token value, nothing for a terminal value or for the stream's closure.
C4_CompletionCount ==
    \A c \in Calls :
        /\ counter[c] # NoCounter =>
              counter[c].completion_tokens = Len(TokensIn(consumed[c]))
        /\ Done(c) =>
              /\ response[c].counter.completion_tokens = Len(TokensIn(consumed[c]))
              /\ response[c].counter.total_tokens =
                     response[c].counter.prompt_tokens + Len(TokensIn(consumed[c]))

C4_Witness ==
    \E c \in Calls :
        /\ Done(c)
        /\ consumed[c] = << TokenOf(<<"b", "c">>), EndOfText >>
        /\ response[c].counter.completion_tokens = 1

\* C5: two runs given the same prompt-token count and the same Token
\* fragments, one ended by EndOfText and the other by CutOff, return the same
\* text and the same counter, and finish_reason Stop and Length respectively.
SameInputButTerminal(c, d) ==
    /\ Done(c) /\ Done(d)
    /\ ptSent[c] = ptSent[d]
    /\ TokensIn(consumed[c]) = TokensIn(consumed[d])
    /\ FirstTerminalKind(consumed[c]) = "EndOfText"
    /\ FirstTerminalKind(consumed[d]) = "CutOff"

C5_TerminalChangesReasonOnly ==
    \A c, d \in Calls :
        SameInputButTerminal(c, d) =>
            /\ Choice(c).text = Choice(d).text
            /\ response[c].counter = response[d].counter
            /\ Choice(c).finish_reason = "Stop"
            /\ Choice(d).finish_reason = "Length"

C5_Witness ==
    /\ SameInputButTerminal(1, 2)
    /\ ptSent[1] = << 1 >>
    /\ consumed[1] = << TokenOf(<<"b", "c">>), EndOfText >>
    /\ consumed[2] = << TokenOf(<<"b", "c">>), CutOff >>

\* C6: with both calls in flight and the worker's sends interleaved in any
\* order, what a call holds was sent on its own reply channels: its consumed
\* values are a prefix of what the worker sent on its token channel, its text
\* and completion count are those of that prefix, and its prompt-token count
\* is the one sent on its own channel (0 if none was).
C6_Isolation ==
    \A c \in Calls :
        /\ IsPrefix(consumed[c], sent[c])
        /\ counter[c] # NoCounter =>
              /\ text[c] = TextOf(consumed[c])
              /\ counter[c].completion_tokens = Len(TokensIn(consumed[c]))
              /\ counter[c].prompt_tokens = (IF ptSent[c] = <<>> THEN 0 ELSE ptSent[c][1])
        /\ Done(c) =>
              /\ Choice(c).text = TextOf(consumed[c])
              /\ response[c].counter.prompt_tokens = (IF ptSent[c] = <<>> THEN 0 ELSE ptSent[c][1])

C6_Witness ==
    /\ pc[1] = "stream" /\ text[1] = <<"a">> /\ counter[1].prompt_tokens = 1
    /\ pc[2] = "stream" /\ text[2] = <<"b", "c">> /\ counter[2].prompt_tokens = 0
    /\ ptSent[2] = << 0 >>
    /\ sent[1] = << TokenOf(<<"a">>) >> /\ sent[2] = << TokenOf(<<"b", "c">>) >>

\* What the aggregation of a stream s after a prompt-token count p returns.
ReasonFor(kind) == CASE kind = "EndOfText" -> "Stop" [] kind = "CutOff" -> "Length" [] OTHER -> "Null"
Aggregated(p, s) ==
    CompletionResponse(TextOf(BeforeFirstTerminal(s)),
                       ReasonFor(FirstTerminalKind(s)),
                       TokenCounter(p, Len(TokensIn(BeforeFirstTerminal(s))),
                                    p + Len(TokensIn(BeforeFirstTerminal(s)))))

\* C7: when the prompt-token-count channel closes before yielding a value,
\* the read resolves (the call neither fails nor blocks), prompt_tokens is 0,
\* and the token stream is aggregated as usual, with total_tokens equal to
\* completion_tokens.
PromptChannelClosedEmpty(c) == ptSent[c] = <<>>

C7_MissingPromptCount ==
    \A c \in Calls :
        /\ pc[c] = "recv_prompt" /\ ptChan[c] = <<>> /\ ~ptOpen[c] => ENABLED CallRecvPrompt(c)
        /\ counter[c] # NoCounter /\ PromptChannelClosedEmpty(c) =>
              /\ counter[c].prompt_tokens = 0
              /\ counter[c].total_tokens = counter[c].completion_tokens
        /\ Done(c) /\ PromptChannelClosedEmpty(c) =>
              /\ response[c] = Aggregated(0, sent[c])
              /\ response[c].counter.total_tokens = response[c].counter.completion_tokens

C7_Witness ==
    \E c \in Calls :
        /\ Done(c) /\ PromptChannelClosedEmpty(c) /\ ~dispatchFailed[c]
        /\ consumed[c] = << TokenOf(<<"b", "c">>), EndOfText >>
        /\ response[c].counter = TokenCounter(0, 1, 1)

\* C8: a call that sends while the dispatch channel is closed is not failed:
\* its two reply channels are disconnected and empty, so both reads resolve,
\* and the response it returns has empty text, a counter of 0, 0, 0 and
\* finish_reason Null.
EmptyResponse == CompletionResponse(<<>>, "Null", TokenCounter(0, 0, 0))

C8_DispatchClosed ==
    \A c \in Calls :
        dispatchFailed[c] =>
            /\ pc[c] \in { "recv_prompt", "stream", "done", "abandoned" }
            /\ ~ptOpen[c] /\ ~tokOpen[c]
            /\ ptChan[c] = <<>> /\ tokChan[c] = <<>>
            /\ ~workerHas[c] /\ \A i \in 1..Len(dispatch) : dispatch[i].call # c
            /\ pc[c] = "recv_prompt" => ENABLED CallRecvPrompt(c)
            /\ pc[c] = "stream" =>
                  /\ ENABLED CallNext(c)
                  /\ counter[c] = TokenCounter(0, 0, 0) /\ text[c] = <<>>
            /\ Done(c) => response[c] = EmptyResponse

C8_Witness ==
    \E c \in Calls : dispatchFailed[c] /\ Done(c) /\ response[c] = EmptyResponse

\* C9 as stated, for a call whose ThreadRequest the worker has taken: the
\* caller always eventually receives a response (unless it abandons the
\* call).
C9_AlwaysReturns ==
    \A c \in Calls : (Active(c) /\ workerHas[c]) ~> (Done(c) \/ pc[c] = "abandoned")

\* C9, amended: a call whose awaited reads can all be answered (the
\* prompt-token channel holds a value or is closed, the token channel holds a
\* terminal variant or is closed) eventually returns, unless its caller
\* abandons it; this covers the closed dispatch channel, the prompt-token
\* channel closed without a value and the stream closed without a terminal
\* variant.  Every response returned is well formed, and a call is never in
\* any state but idle, awaiting, done or abandoned.
HasTerminal(s) == \E i \in 1..Len(s) : IsTerminal(s[i])

Answerable(c) ==
    /\ Active(c)
    /\ pc[c] = "recv_prompt" => (ptChan[c] # <<>> \/ ~ptOpen[c])
    /\ HasTerminal(tokChan[c]) \/ ~tokOpen[c]

WellFormed(r) ==
    /\ r.object = "text_completion"
    /\ Len(r.choices) = 1
    /\ r.choices[1].index = 0
    /\ r.choices[1].finish_reason \in FinishReasons
    /\ r.choices[1].text \in Seq({ "a", "b", "c" })
    /\ r.counter.prompt_tokens \in Nat
    /\ r.counter.completion_tokens \in Nat
    /\ r.counter.total_tokens \in Nat

C9_ReturnsWhenAnswered ==
    /\ \A c \in Calls : Answerable(c) ~> (Done(c) \/ pc[c] = "abandoned")
    /\ [](\A c \in Calls :
            /\ pc[c] \in { "idle", "recv_prompt", "stream", "done", "abandoned" }
            /\ Done(c) <=> response[c] # NoResponse
            /\ Done(c) => WellFormed(response[c]))

C9_Witness ==
    /\ Done(1) /\ dispatchFailed[1]
    /\ Done(2) /\ ~dispatchFailed[2] /\ ptSent[2] = <<>>
    /\ consumed[2] = << TokenOf(<<"a">>) >> /\ Choice(2).finish_reason = "Null"

\* C10: a call makes exactly one send attempt on the dispatch channel; if the
\* worker is listening exactly one ThreadRequest of the call is enqueued, and
\* none otherwise; the send is enabled whatever the queue holds and whether
\* or not the worker is consuming.
QueuedFor(c) == { i \in 1..Len(dispatch) : dispatch[i].call = c }

C10_OneSendPerCall ==
    \A c \in Calls :
        /\ sendAttempts[c] = (IF pc[c] = "idle" THEN 0 ELSE 1)
        /\ enqueued[c] = (IF pc[c] # "idle" /\ ~dispatchFailed[c] THEN 1 ELSE 0)
        /\ Cardinality(QueuedFor(c)) + (IF workerHas[c] THEN 1 ELSE 0) = enqueued[c]
        /\ pc[c] = "idle" => ENABLED (\E req \in Requests : CallSend(c, req))

C10_Witness ==
    /\ Len(dispatch) = 2
    /\ dispatch[1].call = 2 /\ dispatch[2].call = 1
    /\ \A c \in Calls : sendAttempts[c] = 1 /\ enqueued[c] = 1

\* C11: the translated max_tokens is the smaller of the requested value and
\* MAX_TOKENS: never above the ceiling, and the requested value itself
\* whenever that is at most the ceiling.
Translated == greq # NoRequest

C11_MaxTokensClamped ==
    Translated =>
        /\ greq.max_tokens <= MAX_TOKENS
        /\ greq.max_tokens <= creq.max_tokens
        /\ greq.max_tokens \in { creq.max_tokens, MAX_TOKENS }
        /\ creq.max_tokens <= MAX_TOKENS => greq.max_tokens = creq.max_tokens

C11_Witness ==
    /\ Translated
    /\ creq.max_tokens = 2147483647
    /\ greq.max_tokens = MAX_TOKENS

\* C12: the translated prompt holds the prompt's strings one after the other
\* in their original order and nothing else: string i occupies the
\* positions right after those of the strings before it.  A single string is
\* unchanged and an absent prompt gives the empty string.
RECURSIVE LenBefore(_, _)
LenBefore(v, i) == IF i <= 1 THEN 0 ELSE LenBefore(v, i - 1) + Len(v[i - 1])

IsConcatenation(out, v) ==
    /\ Len(out) = LenBefore(v, Len(v) + 1)
    /\ \A i \in 1..Len(v) : \A j \in 1..Len(v[i]) : out[LenBefore(v, i) + j] = v[i][j]

C12_PromptConcatenated ==
    Translated =>
        /\ creq.prompt.kind = "Array" => IsConcatenation(greq.prompt, creq.prompt.items)
        /\ creq.prompt.kind = "Item" => greq.prompt = creq.prompt.item
        /\ creq.prompt.kind = "None" => greq.prompt = <<>>

C12_Witness ==
    /\ Translated
    /\ creq.prompt = ArrayOf(<< <<"b", "c">>, <<"a">> >>)
    /\ greq.prompt = <<"b", "c", "a">>

\* C13: whatever the worker sent and however the call ended, a call that has
\* returned answers with object "text_completion" and exactly one choice,
\* whose index is 0; a call that has not returned has no response.
C13_SingleChoice ==
    \A c \in Calls :
        IF Done(c)
        THEN /\ response[c].object = "text_completion"
             /\ Len(response[c].choices) = 1
             /\ response[c].choices[1].index = 0
        ELSE response[c] = NoResponse

C13_Witness ==
    /\ Done(1) /\ Done(2)
    /\ sent[1] = << TokenOf(<<"b", "c">>), EndOfText >>
    /\ Choice(1).finish_reason = "Stop" /\ Choice(1).text = <<"b", "c">>
    /\ sent[2] = <<>> /\ Choice(2).finish_reason = "Null" /\ Choice(2).text = <<>>
    /\ Len(response[1].choices) = 1 /\ Len(response[2].choices) = 1

\* C14: a call leaves the wait for the prompt-token count only when a count
\* is queued or that channel is closed, and returns only from the stream
\* loop, when the value it reads is a terminal variant or the stream is closed
\* and empty.  While the awaited channel is open and empty no step of the
\* call is enabled: apart from the caller abandoning it, nothing (no timeout)
\* moves it on.
C14_Suspended(c) ==
    /\ pc[c] = "recv_prompt" /\ ptOpen[c] /\ ptChan[c] = <<>> => ~ENABLED CallRecvPrompt(c)
    /\ pc[c] = "stream" /\ tokOpen[c] /\ tokChan[c] = <<>> => ~ENABLED CallNext(c)
    /\ Done(c) => counter[c] # NoCounter

C14_Step(c) ==
    /\ pc[c] = "idle" => pc'[c] \in { "idle", "recv_prompt" }
    /\ pc[c] = "recv_prompt" /\ pc'[c] # "recv_prompt" =>
          \/ pc'[c] = "abandoned"
          \/ pc'[c] = "stream" /\ (ptChan[c] # <<>> \/ ~ptOpen[c])
    /\ pc[c] = "stream" /\ pc'[c] # "stream" =>
          \/ pc'[c] = "abandoned"
          \/ /\ pc'[c] = "done"
             /\ \/ tokChan[c] # <<>> /\ IsTerminal(Head(tokChan[c]))
                \/ tokChan[c] = <<>> /\ ~tokOpen[c]
    /\ pc[c] \in { "done", "abandoned" } => pc'[c] = pc[c]
    /\ consumed'[c] # consumed[c] => pc[c] = "stream" /\ tokChan[c] # <<>>

C14_ReturnsOnlyWhenAnswered ==
    /\ [](\A c \in Calls : C14_Suspended(c))
    /\ [][\A c \in Calls : C14_Step(c)]_vars

C14_Witness ==
    /\ Done(1) /\ ptSent[1] = << 1 >> /\ consumed[1] = << CutOff >>
    /\ pc[2] = "stream" /\ workerHas[2] /\ tokOpen[2] /\ tokChan[2] = <<>>
    /\ ptSent[2] = <<>> /\ ~ptOpen[2]

\* C15 as stated: every ThreadRequest on the dispatch channel carries a
\* GenerateRequest made by the translation: a single prompt string and
\* max_tokens at most MAX_TOKENS.
IsGenerateRequest(v) ==
    /\ DOMAIN v = DOMAIN GenerateRequestFrom(CompletionRequestDefault)
    /\ v.prompt \in Seq({ "a", "b", "c" })
    /\ v.max_tokens <= MAX_TOKENS

C15_TranslatedBeforeDispatch ==
    \A i \in 1..Len(dispatch) : IsGenerateRequest(dispatch[i].request.value)

\* C15, amended: every ThreadRequest on the dispatch channel carries, as
\* RequestKind::Completion, the CompletionRequest as the caller gave it
\* (prompt still an OptionArray, max_tokens possibly above MAX_TOKENS); the
\* handler does not translate.  Translating the carried value gives a
\* GenerateRequest with a single prompt string and max_tokens at most
\* MAX_TOKENS.  The request is owned by the channel and then by the worker,
\* never by both and never twice.
C15_DispatchedUntranslated ==
    /\ \A i \in 1..Len(dispatch) :
          LET m == dispatch[i] IN
          /\ m.request.kind = "Completion"
          /\ m.request.value \in Requests
          /\ ~IsGenerateRequest(m.request.value)
          /\ IsGenerateRequest(GenerateRequestFrom(m.request.value))
          /\ ~workerHas[m.call]
          /\ \A j \in 1..Len(dispatch) : dispatch[j].call = m.call => j = i
    /\ \A c \in Calls : workerHas[c] => pc[c] # "idle" /\ ~dispatchFailed[c]

C15_Witness ==
    /\ Len(dispatch) = 1
    /\ dispatch[1].call = 2
    /\ dispatch[1].request.value.max_tokens = 256
    /\ dispatch[1].request.value.prompt = ItemOf(<<"a">>)
    /\ workerHas[1]

\* C16: a call consumes nothing after its first terminal variant: the only
\* terminal variant among its consumed values is the last one, and what it
\* returns is the aggregation of the worker's stream up to its first terminal
\* variant, whatever the worker sent behind it (EndOfText followed by CutOff
\* yields Stop).
C16_NothingAfterTerminal ==
    \A c \in Calls :
        /\ \A i \in 1..(Len(consumed[c]) - 1) : ~IsTerminal(consumed[c][i])
        /\ Len(consumed[c]) <= FirstTerminalAt(sent[c])
        /\ HasTerminal(consumed[c]) =>
              /\ Done(c)
              /\ consumed[c] = SubSeq(sent[c], 1, FirstTerminalAt(sent[c]))
              /\ Choice(c).text = text[c]
              /\ response[c].counter = counter[c]
              /\ Choice(c).finish_reason = finish_reason[c]
              /\ response[c] =
                    Aggregated(response[c].counter.prompt_tokens,
                               SubSeq(sent[c], 1, FirstTerminalAt(sent[c])))

C16_Witness ==
    /\ Done(1) /\ sent[1] = << EndOfText, CutOff >>
    /\ consumed[1] = << EndOfText >> /\ Choice(1).finish_reason = "Stop"
    /\ Done(2) /\ sent[2] = <<>>

\* C17: once a call's counter is initialised its prompt_tokens never changes
\* and its completion_tokens and total_tokens never decrease; a step that
\* consumes a Token fragment adds one to both and leaves finish_reason alone;
\* a step that consumes a terminal variant, or sees the stream closed, leaves
\* text and the three counter fields alone; the response is built from the
\* locals as they then are, and after that nothing of the call changes.
C17_Step(c) ==
    /\ counter[c] # NoCounter =>
          /\ counter'[c] # NoCounter
          /\ counter'[c].prompt_tokens = counter[c].prompt_tokens
          /\ counter'[c].completion_tokens >= counter[c].completion_tokens
          /\ counter'[c].total_tokens >= counter[c].total_tokens
    /\ consumed'[c] # consumed[c] =>
          LET token == consumed'[c][Len(consumed'[c])] IN
          /\ consumed'[c] = Append(consumed[c], token)
          /\ IsToken(token) =>
                /\ finish_reason'[c] = finish_reason[c]
                /\ text'[c] = text[c] \o token.frag
                /\ counter'[c] = TokenCounter(counter[c].prompt_tokens,
                                              counter[c].completion_tokens + 1,
                                              counter[c].total_tokens + 1)
                /\ response'[c] = NoResponse
          /\ IsTerminal(token) =>
                /\ text'[c] = text[c]
                /\ counter'[c] = counter[c]
    /\ pc[c] = "stream" /\ consumed'[c] = consumed[c] =>
          /\ text'[c] = text[c]
          /\ counter'[c] = counter[c]
          /\ finish_reason'[c] = finish_reason[c]
    /\ ~Done(c) /\ pc'[c] = "done" =>
          response'[c] = CompletionResponse(text'[c], finish_reason'[c], counter'[c])
    /\ Done(c) =>
          /\ pc'[c] = pc[c]
          /\ response'[c] = response[c]
          /\ counter'[c] = counter[c]
          /\ text'[c] = text[c]
          /\ finish_reason'[c] = finish_reason[c]
          /\ consumed'[c] = consumed[c]

C17_MonotoneAndFramed == [][\A c \in Calls : C17_Step(c)]_vars

C17_Witness ==
    /\ Done(1)
    /\ consumed[1] = << TokenOf(<<"a">>), CutOff >>
    /\ response[1] = CompletionResponse(<<"a">>, "Length", TokenCounter(1, 1, 2))
    /\ pc[2] = "stream" /\ counter[2] = TokenCounter(1, 0, 1)

\* C18: the step in which a caller abandons a call sends nothing: the
\* dispatch channel and what the worker holds are as before, and so is
\* everything of every other call.  Afterwards the abandoned call's request is
\* still the worker's to take, or already taken; the worker's sends on the
\* abandoned call's channels are enabled (they fail at once instead of
\* waiting for a reader); and every other call that returns gets the
\* aggregation of what the worker sent to it.
OfCall(c) ==
    << pc[c], ptChan[c], ptOpen[c], tokChan[c], tokOpen[c], counter[c], finish_reason[c],
       text[c], response[c], ptSent[c], sent[c], consumed[c], sendAttempts[c],
       enqueued[c], dispatchFailed[c] >>

C18_AbandonStep(c) ==
    Active(c) /\ pc'[c] = "abandoned" =>
        /\ dispatch' = dispatch
        /\ dispatchOpen' = dispatchOpen
        /\ workerHas' = workerHas
        /\ response'[c] = NoResponse
        /\ \A d \in Calls \ { c } : OfCall(d)' = OfCall(d)

C18_Abandoned(c) ==
    pc[c] = "abandoned" =>
        /\ response[c] = NoResponse
        /\ workerHas[c] \/ Cardinality(QueuedFor(c)) = 1
        /\ dispatch # <<>> /\ Head(dispatch).call = c => ENABLED WorkerRecv
        /\ workerHas[c] =>
              /\ \A t \in TokenValues : ENABLED WorkerSendToken(c, t)
              /\ ptSent[c] = <<>> => \A n \in PromptVals : ENABLED WorkerSendPrompt(c, n)

C18_AbandonIsSilent ==
    /\ [][\A c \in Calls : C18_AbandonStep(c)]_vars
    /\ [](\A c \in Calls :
            /\ C18_Abandoned(c)
            /\ \A i \in 1..Len(dispatch) : dispatch[i].request.kind = "Completion"
            /\ Done(c) =>
                  response[c] = Aggregated(IF ptSent[c] = <<>> THEN 0 ELSE ptSent[c][1],
                                           sent[c]))

C18_Witness ==
    /\ pc[1] = "abandoned" /\ workerHas[1] /\ counter[1] = TokenCounter(1, 0, 1)
    /\ sent[1] = << TokenOf(<<"a">>) >> /\ consumed[1] = <<>>
    /\ Done(2) /\ response[2] = CompletionResponse(<<>>, "Stop", TokenCounter(0, 0, 0))

\* C19: a call consumes no stream value before it has read the prompt-token
\* count, and the stream values sent meanwhile stay queued, none lost.  A call
\* served count late (stream values, even the terminal one, sent before the
\* count) returns the same response as a call served count first with the
\* same count and the same stream: the aggregation of that count and stream.
SameServed(c, d) ==
    /\ Done(c) /\ Done(d)
    /\ ptSent[c] = ptSent[d]
    /\ sent[c] = sent[d]

C19_OrderIndependent ==
    /\ \A c \in Calls :
          /\ pc[c] \in { "idle", "recv_prompt" } =>
                /\ consumed[c] = <<>>
                /\ tokChan[c] = sent[c]
          /\ pc[c] = "stream" => consumed[c] \o tokChan[c] = sent[c]
          /\ Done(c) => response[c] = Aggregated(ptSent[c][1], sent[c])
    /\ SameServed(1, 2) => response[1] = response[2]

C19_Witness ==
    /\ SameServed(1, 2)
    /\ ptSent[2] = << 1 >>
    /\ sent[2] = << TokenOf(<<"b", "c">>), EndOfText >>
    /\ response[2] = CompletionResponse(<<"b", "c">>, "Stop", TokenCounter(1, 1, 2))
====
